---- MODULE Spec2Model ----
(***************************************************************************)
(* Session / authentication lifecycle of the forum frontend.               *)
(*                                                                         *)
(*   Session store      context/AuthContext.js  (AuthProvider, lines 31-105)*)
(*   Credential transport  api module with the response interceptor        *)
(*                      (kept in App.test.js, lines 36-99)                 *)
(*   Login form         components/UserSettings.js (Login, lines 167-260)  *)
(*   OAuth adapter      components/LoginSuccess.js                         *)
(*   Role switch        components/SelectRole.js (lines 76-118)            *)
(*   Logout button      components/StartupsList.js (BaseLayout, 55-127)    *)
(*                                                                         *)
(* JavaScript is single threaded: every handler below runs to completion   *)
(* and is one action.  A network call suspends its task; the call sits in  *)
(* `calls` until the backend answers, and the answer runs the interceptor  *)
(* and the continuation of the caller in one step.                         *)
(*                                                                         *)
(* Five specifications share the actions:                                  *)
(*   Spec            the session store with the login form, the role       *)
(*                   switch, refreshAuthToken and the timer;               *)
(*   SpecTransport   the intercepted client under load: protected calls,   *)
(*                   the api module's login (which stores the refresh      *)
(*                   token refreshToken() reads) and the login form;       *)
(*   SpecOAuth       the OAuth adapter next to the login form, the role    *)
(*                   switch and logout;                                    *)
(*   SpecCredential  the Authorization header of the requests UserSettings *)
(*                   sends in a session the login form opened;             *)
(*   SpecOrder       login, logout and changeRole of the store called      *)
(*                   directly and taken one statement group per step, for  *)
(*                   the order of storage writes and state updates.        *)
(***************************************************************************)
EXTENDS Naturals, FiniteSets, Bags

\* ---------------------------------------------------------------- bounds
MaxPending == 2        \* originating requests that can be in flight together
MaxDepth == 2          \* refresh calls nested below one originating request
MaxTicks == 2          \* steps of the wall clock that are explored

\* ------------------------------------------------------------- constants
MsPerSec == 1000       \* `exp * 1000 < Date.now()`
ClockStep == 1000      \* milliseconds the wall clock advances in one step

NULL == "null"             \* getItem / Cookies.get of an absent key
UNDEF == "undefined"       \* String(undefined), what setItem(k, undefined) stores

AccessTokens == {"a1", "a2"}       \* well-formed JWTs the backend issues
Roles == {"unassigned", "startup", "investor"}
RoleInputs == {"unassigned", "investor"}   \* the role buttons that are explored

LSKeys == {"accessToken", "refreshToken", "role", "access_token", "refresh_token"}
CookieKeys == {"access_token", "refresh_token"}

\* jwtDecode(token): a well-formed token decodes to its payload, anything
\* else throws InvalidTokenError.
Decodable(token) == token \in AccessTokens
jwtDecode(token) == [exp |-> IF token = "a1" THEN 1 ELSE 2]

\* `if (token)`: null is falsy, every non-empty string (also "undefined")
\* is truthy.
Truthy(v) == v # NULL

VARIABLES
  localStorage,     \* window.localStorage, key -> value or NULL
  cookies,          \* document.cookie as seen by js-cookie
  isAuthenticated,  \* useState(false) of AuthProvider
  role,             \* useState('unassigned') of AuthProvider
  phase,            \* "mounted": first render done, effects not yet run;
                    \* "ready": effects ran; "crashed": an effect threw
  now,              \* Date.now()
  calls,            \* network calls in flight: a bag of originating requests
  defaultsAuth,     \* the token in api.defaults.headers.common['Authorization']
  hrefLogin,        \* window.location.href = '/login' was assigned
  event,            \* the handler that ran last, and its outcome
  out               \* what that handler did to the router: navigate(to)

vars == <<localStorage, cookies, isAuthenticated, role, phase, now, calls,
          defaultsAuth, hrefLogin, event, out>>

\* The outward effects of one handler run.
\*   nav    navigate(to)
\*   log    the arguments of console.error
\*   msg    the message set for display
\*   cause  the failure as the network delivered it: a status, or "network"
\*          when there was no response
\*   err    what the code waiting for the call received in its catch
\*   got    response.data.access of the login the form completed
NoError == [is |-> NULL, data |-> NULL]
NoLog == [text |-> NULL, error |-> NoError]
NoFail == [cause |-> NULL, err |-> NULL]
Out(to) ==
  [nav |-> to, log |-> NoLog, msg |-> NULL, cause |-> NULL, err |-> NULL, got |-> NULL]
NoOut == Out("none")
Failed(o, fail) == [o EXCEPT !.cause = fail.cause, !.err = fail.err]

\* An originating request together with the refresh calls nested below it.
\* Only the innermost call of the chain waits for the backend; every call
\* above it is an interceptor suspended in `await refreshToken()`.
\*   purpose   who issued the originating request (see the Issue actions)
\*   arg       the role of a role-change call
\*   depth     refresh calls nested below the originating request
\*   retry     _retry of the innermost call (it is true for all above it)
\*   failed    the refreshToken() awaited for the innermost call failed
\*   nref      refresh calls issued so far on behalf of this request
\*   stale     how many calls of the chain, from the originating request
\*             down, were issued before the last logout()
\*   auth      the token in the Authorization header the originating request
\*             goes out with (NULL is `Bearer null`), or NoHeader; it is
\*             followed for the requests of UserSettings only
NoHeader == "none"
Untracked == "untracked"
NewCall(purpose, arg, auth) ==
  [purpose |-> purpose, arg |-> arg, depth |-> 0, retry |-> FALSE,
   failed |-> FALSE, nref |-> 0, stale |-> 0, auth |-> auth]

Pending == BagToSet(calls)
LeafPurpose(r) == IF r.depth = 0 THEN r.purpose ELSE "refreshToken"
LeafStale(r) == r.stale = r.depth + 1
Min(a, b) == IF a <= b THEN a ELSE b

Remove(r) == calls (-) SetToBag({r})
Replace(r, r2) == (calls (-) SetToBag({r})) (+) SetToBag({r2})

\* ------------------------------------------------------- session store
\* logout(): the keys it removes.
logoutStorage(ls) == [ls EXCEPT !["accessToken"] = NULL, !["refreshToken"] = NULL]

\* Every call in flight when logout() runs was issued before it.
RECURSIVE Copies(_, _)
Copies(B, S) == IF S = {} THEN 0
                ELSE LET x == CHOOSE y \in S : TRUE IN B[x] + Copies(B, S \ {x})
StaleOf(r) == [r EXCEPT !.stale = r.depth + 1]
MarkStale(B) ==
  LET S == BagToSet(B) IN
  [t \in {StaleOf(r) : r \in S} |-> Copies(B, {r \in S : StaleOf(r) = t})]

loginStorage_wrongKey(ls, token) == [ls EXCEPT !["access_token"] = token]
\* login(token): the key it writes.
loginStorage(ls, token) == [ls EXCEPT !["accessToken"] = token]

changeRoleStorage_dropsToken(ls, newRole) ==
  [ls EXCEPT !["role"] = newRole, !["accessToken"] = NULL]
\* changeRole(newRole): the key it writes.
changeRoleStorage(ls, newRole) == [ls EXCEPT !["role"] = newRole]

Expired_graceSecond(token, t) == (jwtDecode(token).exp + 1) * MsPerSec < t
\* `exp * 1000 < Date.now()`
Expired(token, t) == jwtDecode(token).exp * MsPerSec < t

Init ==
  /\ localStorage = [k \in LSKeys |-> NULL]
  /\ cookies = [k \in CookieKeys |-> NULL]
  /\ isAuthenticated = FALSE
  /\ role = "unassigned"
  /\ phase = "mounted"
  /\ now = 0
  /\ calls = EmptyBag
  /\ defaultsAuth = NULL
  /\ hrefLogin = FALSE
  /\ event = "mount"
  /\ out = NoOut

\* ProtectedRoute: what it renders.
ProtectedRoute == IF isAuthenticated THEN "Component" ELSE "Navigate:/login"

\* What the first commit does to the router: on a protected route the
\* element ProtectedRoute rendered is mounted, and the effect of a mounted
\* <Navigate to="/login" /> navigates.  Effects of children run before the
\* effects of AuthProvider.
firstCommit(onProtectedRoute) ==
  IF onProtectedRoute /\ ProtectedRoute = "Navigate:/login" THEN Out("/login") ELSE NoOut

initialize_keepsSession ==
  /\ phase = "mounted"
  /\ phase' = "ready"
  /\ isAuthenticated' = Truthy(localStorage["accessToken"])
  /\ event' = IF ~Truthy(localStorage["accessToken"]) THEN "initialize.none"
              ELSE IF Expired(localStorage["accessToken"], now) THEN "initialize.expired"
              ELSE "initialize.valid"
  /\ out' = NoOut
  /\ UNCHANGED <<localStorage, role, calls, cookies, now, defaultsAuth, hrefLogin>>

\* The effects of the first commit: those of the routed element, then the
\* first useEffect of AuthProvider.
initialize ==
  /\ phase = "mounted"
  /\ LET token == localStorage["accessToken"] IN
     IF ~Truthy(token)
     THEN /\ phase' = "ready"
          /\ event' = "initialize.none"
          /\ UNCHANGED <<localStorage, isAuthenticated, role, calls>>
     ELSE IF ~Decodable(token)
     THEN /\ phase' = "crashed"
          /\ event' = "initialize.throw"
          /\ UNCHANGED <<localStorage, isAuthenticated, role, calls>>
     ELSE IF Expired(token, now)
     THEN /\ phase' = "ready"
          /\ localStorage' = logoutStorage(localStorage)
          /\ isAuthenticated' = FALSE
          /\ role' = "unassigned"
          /\ calls' = MarkStale(calls)
          /\ event' = "initialize.expired"
     ELSE /\ phase' = "ready"
          /\ isAuthenticated' = TRUE
          /\ event' = "initialize.valid"
          /\ UNCHANGED <<localStorage, role, calls>>
  /\ \E onProtectedRoute \in BOOLEAN : out' = firstCommit(onProtectedRoute)
  /\ UNCHANGED <<cookies, now, defaultsAuth, hrefLogin>>

\* The callback of setInterval(..., 60000).
intervalTick ==
  /\ phase = "ready"
  /\ LET token == localStorage["accessToken"] IN
     IF ~Truthy(token)
     THEN /\ event' = "tick.none"
          /\ UNCHANGED <<localStorage, isAuthenticated, role, calls>>
     ELSE IF ~Decodable(token)
     THEN /\ event' = "tick.throw"
          /\ UNCHANGED <<localStorage, isAuthenticated, role, calls>>
     ELSE IF Expired(token, now)
     THEN /\ localStorage' = logoutStorage(localStorage)
          /\ isAuthenticated' = FALSE
          /\ role' = "unassigned"
          /\ calls' = MarkStale(calls)
          /\ event' = "tick.expired"
     ELSE /\ event' = "tick.valid"
          /\ UNCHANGED <<localStorage, isAuthenticated, role, calls>>
  /\ out' = NoOut
  /\ UNCHANGED <<cookies, phase, now, defaultsAuth, hrefLogin>>

\* logout() of the context (BaseLayout.handleLogout calls it and navigates).
logout ==
  /\ phase = "ready"
  /\ localStorage' = logoutStorage(localStorage)
  /\ isAuthenticated' = FALSE
  /\ role' = "unassigned"
  /\ calls' = MarkStale(calls)
  /\ event' = "logout"
  /\ out' = NoOut
  /\ UNCHANGED <<cookies, phase, now, defaultsAuth, hrefLogin>>

\* Wall-clock time passes.
Advance ==
  /\ now < MaxTicks * ClockStep
  /\ now' = now + ClockStep
  /\ UNCHANGED <<localStorage, cookies, isAuthenticated, role, phase, calls,
                 defaultsAuth, hrefLogin, event, out>>

\* A full page load (the pending window.location.href = '/login', or the
\* user reloading): all in-memory state is rebuilt, storage survives.
PageLoad ==
  /\ phase # "mounted"
  /\ isAuthenticated' = FALSE
  /\ role' = "unassigned"
  /\ phase' = "mounted"
  /\ calls' = EmptyBag
  /\ defaultsAuth' = NULL
  /\ hrefLogin' = FALSE
  /\ event' = "mount"
  /\ out' = NoOut
  /\ UNCHANGED <<localStorage, cookies, now>>

\* ------------------------------------------------- issuing network calls
\* What the backend can put in a 2xx body: a token pair, or a body that
\* lacks the fields (response.data.access is then undefined).
Bodies == AccessTokens \cup {UNDEF}
BodyRefresh(access) == IF access = UNDEF THEN UNDEF ELSE "r1"

RequestAuth_apiModuleKey(purpose) ==
  IF purpose = "protected" THEN localStorage["access_token"]
  ELSE IF purpose # "checkUsername" THEN Untracked
  ELSE IF defaultsAuth = NULL THEN NoHeader
  ELSE defaultsAuth

\* The Authorization header of a new request of UserSettings.  Its effect
\* passes `Bearer ${token}` with the persisted accessToken itself;
\* checkUsernameAvailability leaves the header to
\* api.defaults.headers.common.
RequestAuth(purpose) ==
  IF purpose = "protected" THEN localStorage["accessToken"]
  ELSE IF purpose # "checkUsername" THEN Untracked
  ELSE IF defaultsAuth = NULL THEN NoHeader
  ELSE defaultsAuth

\* api(originalRequest): the headers of the first send are part of the
\* config that is replayed and win over the defaults; a request that went
\* out without the header picks up the default set a moment ago.
ReplayAuth(r, default) == IF r.auth = NoHeader THEN default ELSE r.auth

Issue(purpose, arg) ==
  /\ phase = "ready"
  /\ BagCardinality(calls) < MaxPending
  /\ calls' = calls (+) SetToBag({NewCall(purpose, arg, RequestAuth(purpose))})
  /\ event' = "issue"
  /\ out' = NoOut
  /\ UNCHANGED <<localStorage, cookies, isAuthenticated, role, phase, now,
                 defaultsAuth, hrefLogin>>

\* Login.handleSubmitForm: api.post('/api/v1/login/', ...)
handleSubmitForm == Issue("login", NULL)

\* login(email, password) exported by the api module
apiLogin == Issue("apiLogin", NULL)

\* UserSettings: api.get('/api/v1/user/update/', ...)
protectedCall == Issue("protected", NULL)

\* UserSettings.checkUsernameAvailability: api.get(`.../check_username/...`)
checkUsernameAvailability == Issue("checkUsername", NULL)

\* AuthProvider.refreshAuthToken: api.post('/api/token/refresh/', ...)
refreshAuthToken == Issue("refreshAuthToken", NULL)

handleRoleChange_optimistic ==
  \E r \in RoleInputs :
    /\ phase = "ready"
    /\ BagCardinality(calls) < MaxPending
    /\ calls' = calls (+) SetToBag({NewCall("role", r, Untracked)})
    /\ role' = r
    /\ localStorage' = changeRoleStorage(localStorage, r)
    /\ event' = "issue"
    /\ out' = NoOut
    /\ UNCHANGED <<cookies, isAuthenticated, phase, now, defaultsAuth, hrefLogin>>

\* SelectRole.handleRoleChange(role): api.post('/api/v1/change-role/', ...)
handleRoleChange == \E r \in RoleInputs : Issue("role", r)

\* The `code` parameters a redirect from the provider can carry.
Codes == {"c1", "c2"}

handleGoogleLogin_callsWithoutCode ==
  \/ \E code \in Codes : Issue("oauth", code)
  \/ /\ phase = "ready"
     /\ BagCardinality(calls) < MaxPending
     /\ calls' = calls (+) SetToBag({NewCall("oauth", NULL, Untracked)})
     /\ event' = "oauth.missing_code"
     /\ out' = Out("/login?error=missing_code")
     /\ UNCHANGED <<localStorage, cookies, isAuthenticated, role, phase, now,
                    defaultsAuth, hrefLogin>>

\* LoginSuccess.handleGoogleLogin: axios.post (not the intercepted client)
\* when the URL carries a code, navigate('/login?error=missing_code') else.
handleGoogleLogin ==
  \/ \E code \in Codes : Issue("oauth", code)
  \/ /\ phase = "ready"
     /\ event' = "oauth.missing_code"
     /\ out' = Out("/login?error=missing_code")
     /\ UNCHANGED <<localStorage, cookies, isAuthenticated, role, phase, now,
                    calls, defaultsAuth, hrefLogin>>

\* --------------------------------------------- continuations of the callers
\* The label of a completion: its own when logout() ran since the call was issued.
Lbl(r, fresh, stale) == IF LeafStale(r) THEN stale ELSE fresh

\* The error object a catch receives: what it is, and the request data its
\* `config` carries (the code of an exchange, the role of a role change).
ErrorObject(r, fail) == [is |-> fail.err, data |-> r.arg]

\* Login.handleSubmitForm, .catch: the message it sets
loginErrorMessage(err) ==
  IF err \in {"network", "TypeError"}
  THEN "Invalid credentials. Please check your email and password."
  ELSE "non_field_errors || email || password || Invalid credentials. Please check your email and password."

roleErrorMessage_alwaysGeneric(err) == "Error changing role. Please try again."
\* SelectRole.handleRoleChange, .catch: the message it sets
roleErrorMessage(err) ==
  IF err = "401" THEN "Unauthorized: Invalid token or token expired"
  ELSE "Error changing role. Please try again."

\* The promise of the innermost call of r settles: the .then/.catch (or the
\* code after the await) of its caller runs.  ok: fulfilled with a 2xx
\* response whose body carries `access`; otherwise rejected with fail.err.
Settle(r, ok, access, fail) ==
  LET p == LeafPurpose(r) IN
  CASE p = "protected" ->
         /\ calls' = Remove(r)
         /\ event' = IF ok THEN "protected.ok"
                     ELSE IF r.failed THEN "protected.rejected.afterFailedRefresh"
                     ELSE "protected.rejected"
         /\ out' = IF ok THEN NoOut
                   ELSE [Failed(NoOut, fail) EXCEPT
                           !.log = [text |-> "Failed to load user data:",
                                    error |-> ErrorObject(r, fail)]]
         /\ UNCHANGED <<localStorage, cookies, isAuthenticated, role, defaultsAuth, hrefLogin>>
    [] p = "checkUsername" ->
         /\ calls' = Remove(r)
         /\ event' = IF ok THEN "checkUsername.ok" ELSE "checkUsername.rejected"
         /\ out' = IF ok THEN NoOut
                   ELSE [Failed(NoOut, fail) EXCEPT
                           !.log = [text |-> "Failed to check username availability:",
                                    error |-> ErrorObject(r, fail)]]
         /\ UNCHANGED <<localStorage, cookies, isAuthenticated, role, defaultsAuth, hrefLogin>>
    [] p = "login" ->
         /\ calls' = Remove(r)
         /\ IF ok
            THEN /\ localStorage' = loginStorage(localStorage, access)
                 /\ isAuthenticated' = TRUE
                 /\ event' = Lbl(r, "login.ok", "login.ok.stale")
                 /\ out' = [Out("/select-role")   \* through setTimeout(..., 2000)
                             EXCEPT !.msg = "Login successful! Redirecting...",
                                    !.got = access]
            ELSE /\ event' = "login.error"
                 /\ out' = [Failed(NoOut, fail) EXCEPT !.msg = loginErrorMessage(fail.err)]
                 /\ UNCHANGED <<localStorage, isAuthenticated>>
         /\ UNCHANGED <<cookies, role, defaultsAuth, hrefLogin>>
    [] p = "apiLogin" ->
         /\ calls' = Remove(r)
         /\ IF ok
            THEN /\ cookies' = [cookies EXCEPT !["access_token"] = access,
                                               !["refresh_token"] = BodyRefresh(access)]
                 /\ localStorage' = [localStorage EXCEPT !["access_token"] = access,
                                               !["refresh_token"] = BodyRefresh(access)]
                 /\ event' = Lbl(r, "apiLogin.ok", "apiLogin.ok.stale")
            ELSE /\ event' = "apiLogin.error"
                 /\ UNCHANGED <<localStorage, cookies>>
         /\ out' = Failed(NoOut, fail)
         /\ UNCHANGED <<isAuthenticated, role, defaultsAuth, hrefLogin>>
    [] p = "refreshAuthToken" ->
         /\ IF ok
            THEN /\ calls' = Remove(r)
                 /\ localStorage' = [localStorage EXCEPT !["accessToken"] = access]
                 /\ event' = Lbl(r, "refreshAuthToken.ok", "refreshAuthToken.ok.stale")
                 /\ UNCHANGED <<isAuthenticated, role>>
            ELSE /\ calls' = MarkStale(Remove(r))
                 /\ localStorage' = logoutStorage(localStorage)
                 /\ isAuthenticated' = FALSE
                 /\ role' = "unassigned"
                 /\ event' = "refreshAuthToken.failed"
         /\ out' = Failed(NoOut, fail)
         /\ UNCHANGED <<cookies, defaultsAuth, hrefLogin>>
    [] p = "role" ->
         /\ calls' = Remove(r)
         /\ IF ok
            THEN /\ role' = r.arg
                 /\ localStorage' = changeRoleStorage(localStorage, r.arg)
                 /\ event' = "role.ok"
                 /\ out' = Out("/")
            ELSE /\ event' = "role.error"
                 /\ out' = [Failed(NoOut, fail) EXCEPT !.msg = roleErrorMessage(fail.err)]
                 /\ UNCHANGED <<localStorage, role>>
         /\ UNCHANGED <<cookies, isAuthenticated, defaultsAuth, hrefLogin>>
    [] p = "refreshToken" ->
         \* refreshToken() returns (the new token, or undefined after its
         \* catch), and the interceptor that awaited it sets the default
         \* header and replays its request.
         /\ calls' = Replace(r, [r EXCEPT !.depth = @ - 1, !.retry = TRUE,
                                          !.failed = ~ok, !.stale = Min(@, r.depth),
                                          !.auth = IF r.depth = 1
                                                   THEN ReplayAuth(r, IF ok THEN access ELSE UNDEF)
                                                   ELSE @])
         /\ defaultsAuth' = IF ok THEN access ELSE UNDEF
         /\ IF ok
            THEN /\ cookies' = [cookies EXCEPT !["access_token"] = access]
                 /\ localStorage' = [localStorage EXCEPT !["access_token"] = access]
                 /\ event' = Lbl(r, "refreshToken.ok", "refreshToken.ok.stale")
                 /\ UNCHANGED hrefLogin
            ELSE /\ hrefLogin' = TRUE
                 /\ event' = "refreshToken.failed"
                 /\ UNCHANGED <<localStorage, cookies>>
         /\ out' = Failed(NoOut, fail)
         /\ UNCHANGED <<isAuthenticated, role>>
    [] p = "oauth" ->
         /\ calls' = Remove(r)
         /\ IF ok /\ access # UNDEF
            THEN /\ localStorage' = [localStorage EXCEPT !["accessToken"] = access,
                                               !["refreshToken"] = BodyRefresh(access)]
                 /\ event' = Lbl(r, "oauth.ok", "oauth.ok.stale")
                 /\ out' = Out("/select-role")
            ELSE /\ event' = IF ok THEN "oauth.incomplete" ELSE "oauth.failed"
                 /\ out' = IF ok THEN NoOut
                           ELSE [Failed(Out("/login?error=login_failed"), fail) EXCEPT
                                   !.log = [text |-> "Google login failed:",
                                            error |-> ErrorObject(r, fail)]]
                 /\ UNCHANGED localStorage
         /\ UNCHANGED <<cookies, isAuthenticated, role, defaultsAuth, hrefLogin>>

\* ------------------------------------------------------ backend answers
\* 2xx: the response interceptor passes the response through.
Answer2xx ==
  \E r \in Pending : \E access \in Bodies :
    /\ Settle(r, TRUE, access, NoFail)
    /\ UNCHANGED <<phase, now>>

\* refreshToken(): the refresh token it reads
StoredRefresh == IF Truthy(cookies["refresh_token"]) THEN cookies["refresh_token"]
                 ELSE localStorage["refresh_token"]

\* 401 on the intercepted client
Answer401 ==
  \E r \in Pending :
    /\ r.purpose # "oauth"
    /\ IF r.retry
       THEN Settle(r, FALSE, UNDEF, [cause |-> "401", err |-> "401"])
       ELSE IF ~Truthy(StoredRefresh)
       THEN \* refreshToken() assigns the location and returns undefined;
            \* the interceptor goes on and replays the request.
            /\ calls' = Replace(r, [r EXCEPT !.retry = TRUE,
                                             !.auth = IF r.depth = 0
                                                      THEN ReplayAuth(r, UNDEF) ELSE @])
            /\ hrefLogin' = TRUE
            /\ defaultsAuth' = UNDEF
            /\ event' = "interceptor.noRefreshToken"
            /\ out' = NoOut
            /\ UNCHANGED <<localStorage, cookies, isAuthenticated, role>>
       ELSE /\ r.depth < MaxDepth
            /\ calls' = Replace(r, [r EXCEPT !.depth = @ + 1, !.retry = FALSE,
                                             !.failed = FALSE, !.nref = @ + 1])
            /\ event' = "interceptor.refresh"
            /\ out' = NoOut
            /\ UNCHANGED <<localStorage, cookies, isAuthenticated, role, defaultsAuth, hrefLogin>>
    /\ UNCHANGED <<phase, now>>

\* What the response interceptor rejects with.  A failure with no response
\* at all makes `error.response.status` throw inside the interceptor; the
\* promise is then rejected with that TypeError.  The OAuth adapter calls
\* axios directly and receives the error as it is.
Rejection(r, status) ==
  IF r.purpose # "oauth" /\ status = "network" THEN "TypeError" ELSE status

\* Any other failure: a status other than 401 or, for the client without
\* the interceptor, any status.
AnswerError ==
  \E r \in Pending : \E status \in {"401", "500", "network"} :
    /\ status = "401" => r.purpose = "oauth"
    /\ Settle(r, FALSE, UNDEF, [cause |-> status, err |-> Rejection(r, status)])
    /\ UNCHANGED <<phase, now>>

\* The session store and its callers.
Next ==
  \/ initialize
  \/ intervalTick
  \/ logout
  \/ handleSubmitForm
  \/ refreshAuthToken
  \/ handleRoleChange
  \/ Answer2xx
  \/ Answer401
  \/ AnswerError
  \/ Advance
  \/ PageLoad

Spec == Init /\ [][Next]_vars

\* The intercepted client with a stored refresh token.
NextTransport ==
  \/ initialize
  \/ handleSubmitForm
  \/ apiLogin
  \/ protectedCall
  \/ Answer2xx
  \/ Answer401
  \/ AnswerError
  \/ PageLoad

SpecTransport == Init /\ [][NextTransport]_vars

\* The OAuth adapter next to the login form, the role switch and logout.
NextOAuth ==
  \/ initialize
  \/ handleGoogleLogin
  \/ handleSubmitForm
  \/ handleRoleChange
  \/ logout
  \/ Answer2xx
  \/ AnswerError
  \/ PageLoad

SpecOAuth == Init /\ [][NextOAuth]_vars

\* The credential on the requests of a session opened through the login
\* form: the calls of UserSettings, and the store's own refresh.
NextCredential ==
  \/ initialize
  \/ handleSubmitForm
  \/ protectedCall
  \/ checkUsernameAvailability
  \/ refreshAuthToken
  \/ logout
  \/ Answer2xx
  \/ Answer401
  \/ AnswerError
  \/ PageLoad

SpecCredential == Init /\ [][NextCredential]_vars

\* ------------------------------- the store, one statement group per step
\* login, logout and changeRole of the context taken in program order:
\* first group of statements, then the second.  `event` names the group
\* that ran last; between the two groups of one call nothing else runs.
MidHandler == event \in {"login.setItem", "logout.removeItem", "changeRole.setRole"}

StoreStep(label) ==
  /\ event' = label
  /\ out' = NoOut
  /\ UNCHANGED <<cookies, phase, now, calls, defaultsAuth, hrefLogin>>

\* login(token): localStorage.setItem('accessToken', token);
login_setItem ==
  \E token \in Bodies :
    /\ phase = "ready"
    /\ ~MidHandler
    /\ localStorage' = loginStorage(localStorage, token)
    /\ UNCHANGED <<isAuthenticated, role>>
    /\ StoreStep("login.setItem")

\* login(token): setIsAuthenticated(true);
login_setIsAuthenticated ==
  /\ event = "login.setItem"
  /\ isAuthenticated' = TRUE
  /\ UNCHANGED <<localStorage, role>>
  /\ StoreStep("login.setIsAuthenticated")

\* logout(): the two removeItem calls
logout_removeItem ==
  /\ phase = "ready"
  /\ ~MidHandler
  /\ localStorage' = logoutStorage(localStorage)
  /\ UNCHANGED <<isAuthenticated, role>>
  /\ StoreStep("logout.removeItem")

\* logout(): setIsAuthenticated(false); setRole('unassigned');
logout_setState ==
  /\ event = "logout.removeItem"
  /\ isAuthenticated' = FALSE
  /\ role' = "unassigned"
  /\ UNCHANGED localStorage
  /\ StoreStep("logout.setState")

\* changeRole(newRole): setRole(newRole);
changeRole_setRole ==
  \E newRole \in Roles :
    /\ phase = "ready"
    /\ ~MidHandler
    /\ role' = newRole
    /\ UNCHANGED <<localStorage, isAuthenticated>>
    /\ StoreStep("changeRole.setRole")

\* changeRole(newRole): localStorage.setItem('role', newRole);
changeRole_setItem ==
  /\ event = "changeRole.setRole"
  /\ localStorage' = changeRoleStorage(localStorage, role)
  /\ UNCHANGED <<isAuthenticated, role>>
  /\ StoreStep("changeRole.setItem")

NextOrder ==
  \/ initialize
  \/ ~MidHandler /\ intervalTick
  \/ ~MidHandler /\ Advance
  \/ ~MidHandler /\ PageLoad
  \/ login_setItem
  \/ login_setIsAuthenticated
  \/ logout_removeItem
  \/ logout_setState
  \/ changeRole_setRole
  \/ changeRole_setItem

SpecOrder == Init /\ [][NextOrder]_vars

\* ------------------------------------------------------------ properties
\* Calls to the refresh endpoint that wait for the backend: the innermost
\* call of a chain is the only one on the wire.
IsRefreshCall(r) == LeafPurpose(r) \in {"refreshToken", "refreshAuthToken"}
OutstandingRefresh == Copies(calls, {r \in Pending : IsRefreshCall(r)})

\* C1: at most one call to the refresh endpoint is outstanding at any time,
\* counting the transport's refreshToken and the store's refreshAuthToken.
C1_SingleFlightRefresh == OutstandingRefresh <= 1

\* Requests whose first 401 started a refresh that has not been answered.
AwaitingFirstRefresh == {r \in Pending : r.depth = 1 /\ r.nref = 1 /\ ~r.retry}
RECURSIVE RefreshesIssuedFor(_)
RefreshesIssuedFor(S) ==
  IF S = {} THEN 0
  ELSE LET x == CHOOSE y \in S : TRUE
       IN calls[x] * x.nref + RefreshesIssuedFor(S \ {x})

\* C2: for N >= 1 requests answered 401 and waiting for the refresh, exactly
\* one refresh call has been issued in total.
C2_OneRefreshForAllWaiting ==
  AwaitingFirstRefresh # {} => RefreshesIssuedFor(AwaitingFirstRefresh) = 1

\* C3: at most one refresh call is ever issued on behalf of one originating
\* request, whatever the backend answers.
C3_OneRefreshPerRequest == \A r \in Pending : r.nref <= 1

CredentialsCleared ==
  /\ \A k \in {"accessToken", "refreshToken", "access_token", "refresh_token"} :
       localStorage[k] = NULL
  /\ \A k \in CookieKeys : cookies[k] = NULL

\* C4: after a failed call to the refresh endpoint (refreshToken or
\* refreshAuthToken) the session is logged out and every persisted
\* credential key is removed.
C4_RefreshFailureLogsOut ==
  event \in {"refreshToken.failed", "refreshAuthToken.failed"} =>
    /\ isAuthenticated = FALSE
    /\ role = "unassigned"
    /\ CredentialsCleared

\* C5: a request whose refresh failed is not sent again: no call in flight
\* is the replay of a request whose refreshToken() failed.
C5_NoReplayAfterFailedRefresh == \A r \in Pending : ~r.failed

\* C6: the completion of a login, refresh or OAuth-exchange call that was
\* issued before a logout leaves no persisted access token and no
\* authenticated session.
C6_StaleResponseIgnored ==
  event \in {"login.ok.stale", "refreshAuthToken.ok.stale", "oauth.ok.stale"} =>
    /\ localStorage["accessToken"] = NULL
    /\ isAuthenticated = FALSE

\* C7: initialization that finds an expired access token ends logged out
\* with no access-token, refresh-token or role key persisted.
C7_ExpiredInitClearsStorage ==
  event = "initialize.expired" =>
    /\ isAuthenticated = FALSE
    /\ localStorage["accessToken"] = NULL
    /\ localStorage["refreshToken"] = NULL
    /\ localStorage["role"] = NULL

\* C8: an undecodable persisted token is treated as expired by
\* initialization and by the timer: no error is raised, and once either has
\* run no undecodable token is left in storage.
C8_UndecodableTreatedAsExpired ==
  /\ phase # "crashed"
  /\ event # "tick.throw"
  /\ event \in {"initialize.none", "initialize.expired", "initialize.valid",
                "tick.none", "tick.expired", "tick.valid", "tick.throw",
                "initialize.throw"} =>
       (localStorage["accessToken"] = NULL \/ Decodable(localStorage["accessToken"]))

\* C9: initialization with a valid token sets isAuthenticated and restores
\* the persisted role; with no token the state is logged out / unassigned.
C9_InitRestoresRole ==
  /\ event = "initialize.valid" =>
       /\ isAuthenticated = TRUE
       /\ localStorage["role"] # NULL => role = localStorage["role"]
  /\ event = "initialize.none" =>
       /\ isAuthenticated = FALSE
       /\ role = "unassigned"

\* C10: logout leaves no access-token, refresh-token or role key persisted
\* and leaves isAuthenticated = false, role = unassigned.
C10_LogoutClearsAll ==
  event = "logout" =>
    /\ localStorage["accessToken"] = NULL
    /\ localStorage["refreshToken"] = NULL
    /\ localStorage["role"] = NULL
    /\ isAuthenticated = FALSE
    /\ role = "unassigned"

\* The keys under which the session is persisted.
SessionKeys == {"accessToken", "refreshToken", "role"}

\* C11: logout() called again right after logout(): the second call
\* changes nothing (its writes and state updates are already in place), and
\* persisted storage is empty and isAuthenticated = false after either call.
C11_LogoutIdempotent ==
  event = "logout" =>
    /\ logoutStorage(localStorage) = localStorage
    /\ MarkStale(calls) = calls
    /\ isAuthenticated = FALSE
    /\ role = "unassigned"
    /\ \A k \in SessionKeys : localStorage[k] = NULL

\* The handlers that complete a mutation of the session: login, logout
\* (also when the store calls it itself), changeRole, refresh, OAuth exchange.
MutationDone ==
  {"login.ok", "login.ok.stale", "logout", "initialize.expired", "tick.expired",
   "role.ok", "refreshAuthToken.ok", "refreshAuthToken.ok.stale",
   "refreshAuthToken.failed", "oauth.ok", "oauth.ok.stale"}
PersistedRole == IF localStorage["role"] = NULL THEN "unassigned" ELSE localStorage["role"]

\* C12: after every completed mutation an access token is persisted exactly
\* when isAuthenticated is true, and the persisted role (an absent key
\* reads as unassigned) equals the in-memory role.
C12_StorageAgreesWithMemory ==
  event \in MutationDone =>
    /\ Truthy(localStorage["accessToken"]) <=> isAuthenticated
    /\ PersistedRole = role

\* C13: in login, logout and changeRole the write to persisted storage comes
\* before the in-memory update: once the state setters of a call have run,
\* storage already holds what the call persists.
C13_WriteBeforeUpdate ==
  /\ event = "login.setIsAuthenticated" => Truthy(localStorage["accessToken"])
  /\ event = "logout.setState" =>
       localStorage["accessToken"] = NULL /\ localStorage["refreshToken"] = NULL
  /\ event = "changeRole.setRole" => PersistedRole = role

\* C14: changeRole(newRole) changes only the persisted role and the in-memory
\* role: the persisted access token, the persisted refresh token and
\* isAuthenticated (and every other stored key) are what they were before.
C14_ChangeRoleFrame ==
  [][event' = "role.ok" =>
       /\ \A k \in LSKeys \ {"role"} : localStorage'[k] = localStorage[k]
       /\ cookies' = cookies
       /\ isAuthenticated' = isAuthenticated]_vars

C14_Witness ==
  /\ event = "role.ok"
  /\ role = "investor"
  /\ localStorage["role"] = "investor"
  /\ isAuthenticated
  /\ Truthy(localStorage["accessToken"])
  /\ Truthy(localStorage["refreshToken"])

\* Milliseconds until the token expires, compared without subtraction.
LifetimeLeftIn(token, lo, hi) ==
  /\ Decodable(token)
  /\ now + lo < jwtDecode(token).exp * MsPerSec
  /\ jwtDecode(token).exp * MsPerSec < now + hi

\* C15: a timer tick that finds the remaining lifetime of the persisted
\* access token positive but below the five-minute low-water mark issues
\* exactly one refresh call.
C15_TickRefreshesBelowMark ==
  [][(event # "tick.valid" /\ event' = "tick.valid"
      /\ LifetimeLeftIn(localStorage["accessToken"], 0, 5 * 60 * MsPerSec))
     => OutstandingRefresh' = OutstandingRefresh + 1]_vars

\* A step of the timer callback that found a decodable token.
TickOnToken == event' # event /\ event' \in {"tick.valid", "tick.expired"}
ExpiryOf(token) == jwtDecode(token).exp * MsPerSec

\* C16: a timer tick that finds the remaining lifetime of the token at or
\* below zero logs the session out in that tick and issues no refresh call.
C16_TickExpiredLogsOut ==
  [][(TickOnToken /\ ExpiryOf(localStorage["accessToken"]) <= now) =>
       /\ isAuthenticated' = FALSE
       /\ localStorage'["accessToken"] = NULL
       /\ OutstandingRefresh' = OutstandingRefresh]_vars

\* C16, amended: a tick that finds the expiry strictly in the past logs the
\* session out in that tick and issues no refresh call; a tick at the very
\* millisecond of expiry leaves the session as it is.
C16_TickPastExpiryLogsOut ==
  [][TickOnToken =>
       /\ ExpiryOf(localStorage["accessToken"]) < now =>
            /\ isAuthenticated' = FALSE
            /\ localStorage'["accessToken"] = NULL
            /\ localStorage'["refreshToken"] = NULL
            /\ OutstandingRefresh' = OutstandingRefresh
       /\ ExpiryOf(localStorage["accessToken"]) = now =>
            UNCHANGED <<localStorage, isAuthenticated, role, calls>>]_vars

C16_Witness ==
  /\ event = "tick.expired"
  /\ now > 0
  /\ isAuthenticated = FALSE
  /\ localStorage["accessToken"] = NULL

\* C17: the timer is stopped whenever the session is logged out: no tick
\* runs in a state where isAuthenticated is false.
C17_NoTickWhileLoggedOut ==
  [][(event' # event
      /\ event' \in {"tick.none", "tick.throw", "tick.valid", "tick.expired"})
     => isAuthenticated]_vars

\* C18: the OAuth adapter started on a URL without `code` navigates to
\* /login?error=missing_code, issues no call and leaves persisted storage
\* as it was.
C18_MissingCodeOnlyNavigates ==
  [][event' = "oauth.missing_code" =>
       /\ out'.nav = "/login?error=missing_code"
       /\ calls' = calls
       /\ localStorage' = localStorage
       /\ cookies' = cookies]_vars

C18_Witness ==
  /\ event = "oauth.missing_code"
  /\ out.nav = "/login?error=missing_code"
  /\ Truthy(localStorage["accessToken"])
  /\ calls # EmptyBag

\* C19: a successful OAuth exchange returning {access, refresh} leaves the
\* session as login(access) of the store leaves it after a password login
\* (authenticated, access token persisted, nothing else written, role
\* untouched), and navigates to the post-login route.
C19_OAuthAsPasswordLogin ==
  [][(calls' # calls /\ event' \in {"oauth.ok", "oauth.ok.stale"}) =>
       /\ isAuthenticated' = TRUE
       /\ localStorage' = loginStorage(localStorage, localStorage'["accessToken"])
       /\ role' = role
       /\ out'.nav = "/select-role"]_vars

\* C20: every run of the OAuth adapter ends in one navigation:
\* /login?error=missing_code without a code, the post-login route after a
\* successful exchange, /login?error=login_failed for every other answer
\* (also a 2xx body without the complete pair).
C20_OAuthAlwaysNavigates ==
  /\ event = "oauth.missing_code" => out.nav = "/login?error=missing_code"
  /\ event \in {"oauth.ok", "oauth.ok.stale"} => out.nav = "/select-role"
  /\ event \in {"oauth.incomplete", "oauth.failed"} =>
       out.nav = "/login?error=login_failed"

\* C22: the role switch calls changeRole(role) only after the backend's
\* role-change call for that role has succeeded: the persisted role changes,
\* and the in-memory role takes a new value other than the reset to
\* unassigned, only in the step that completes such a call with success.
C22_ChangeRoleAfterBackendSuccess ==
  [][(localStorage'["role"] # localStorage["role"]
      \/ (role' # role /\ role' # "unassigned"))
     => /\ event' = "role.ok"
        /\ \E r \in Pending :
             /\ LeafPurpose(r) = "role"
             /\ r.arg = role'
             /\ r.arg = localStorage'["role"]
             /\ calls' = Remove(r)]_vars

C22_Witness ==
  /\ event = "role.ok"
  /\ role = "investor"
  /\ localStorage["role"] = "investor"
  /\ \E r \in Pending : r.purpose = "role"

\* A step of initialization or of the timer callback that checked the
\* expiry of a decodable token.
CheckOnToken ==
  /\ event' # event
  /\ event' \in {"initialize.valid", "initialize.expired", "tick.valid", "tick.expired"}

\* C28: once an expiry check (initialization or timer tick) has found the
\* stored access token expired, isAuthenticated is false when that check
\* completes; it is true after a check only if the token was not expired.
C28_ExpiredCheckEndsAuthentication ==
  [][CheckOnToken =>
       /\ ExpiryOf(localStorage["accessToken"]) < now => isAuthenticated' = FALSE
       /\ event' \in {"initialize.expired", "tick.expired"} => isAuthenticated' = FALSE
       /\ event' = "initialize.valid" => isAuthenticated' = TRUE]_vars

C28_Witness ==
  /\ event = "initialize.expired"
  /\ isAuthenticated = FALSE
  /\ phase = "ready"

\* C30: isAuthenticated = true implies that the accessToken key is
\* persisted, so ProtectedRoute renders a protected component only while
\* an access token is persisted.
C30_AuthenticatedHasToken ==
  /\ isAuthenticated => Truthy(localStorage["accessToken"])
  /\ ProtectedRoute = "Component" => Truthy(localStorage["accessToken"])

C30_Witness ==
  /\ event = "refreshAuthToken.ok"
  /\ isAuthenticated
  /\ ProtectedRoute = "Component"
  /\ now > 0

\* C29: the application loaded on a protected route with a non-expired
\* access token persisted shows the protected component: the first commit
\* and the initialization effect do not redirect to /login.
C29_NoRedirectBeforeInitialize ==
  event = "initialize.valid" => out.nav # "/login"

\* C21: the OAuth adapter puts neither the authorization code nor the raw
\* response or error object into the URL it navigates to or onto the
\* console: it navigates to one of its three fixed routes and logs at most
\* a fixed text.
OAuthEvents ==
  {"oauth.ok", "oauth.ok.stale", "oauth.incomplete", "oauth.failed", "oauth.missing_code"}
C21_OAuthLeaksNothing ==
  event \in OAuthEvents
    => /\ out.nav \in {"none", "/select-role", "/login?error=login_failed",
                       "/login?error=missing_code"}
       /\ out.log.error = NoError

\* C23: when the backend call of a role change fails, the role in memory
\* and the persisted role stay as they were and a message is shown: the
\* session-expired message after a 401, the generic retry message after
\* any other failure, a network failure included.
C23_RoleChangeFailureKeepsRole ==
  [][(event' = "role.error" /\ calls' # calls)
       => /\ role' = role
          /\ localStorage' = localStorage
          /\ out'.msg = IF out'.cause = "401"
                        THEN "Unauthorized: Invalid token or token expired"
                        ELSE "Error changing role. Please try again."]_vars

C23_Witness ==
  /\ event = "role.error"
  /\ out.cause = "401"
  /\ out.msg = "Unauthorized: Invalid token or token expired"
  /\ role = "investor"
  /\ localStorage["role"] = "investor"

\* C24: every request of UserSettings sent through the api client while
\* the session is authenticated carries the access token the store holds at
\* that moment as its bearer credential: none goes out without a credential
\* or with another token.
C24_RequestsCarryCurrentToken ==
  [][(isAuthenticated /\ localStorage["accessToken"] \in AccessTokens /\ event' = "issue")
       => \A r \in BagToSet(calls') :
            (CopiesIn(r, calls') > CopiesIn(r, calls) /\ r.auth # Untracked)
              => r.auth = localStorage["accessToken"]]_vars

\* C25: after a refresh that a 401 triggered has succeeded, the replayed
\* request carries the newly issued token, also when the original request
\* had set its own Authorization header, and is the same request otherwise.
C25_ReplayCarriesNewToken ==
  [][(event' \in {"refreshToken.ok", "refreshToken.ok.stale"}
        /\ defaultsAuth' \in AccessTokens)
       => \A r \in Pending :
            (calls' # calls /\ r.depth = 1 /\ r.auth # Untracked
               /\ CopiesIn(r, calls') < CopiesIn(r, calls))
              => \E q \in BagToSet(calls') :
                   /\ calls' = Replace(r, q)
                   /\ q.purpose = r.purpose /\ q.arg = r.arg
                   /\ q.depth = 0 /\ q.retry
                   /\ q.auth = defaultsAuth']_vars

\* C26: an error other than a 401, a network failure with no response
\* included, reaches the caller as the error it is: the transport starts
\* no refresh, does not send the request again and puts no other error in
\* its place.
C26_OtherErrorsPassThrough ==
  [][(calls' # calls /\ out'.cause \in {"500", "network"})
       => /\ out'.err = out'.cause
          /\ OutstandingRefresh' <= OutstandingRefresh
          /\ event' # "refreshToken.failed"
               => BagCardinality(calls') = BagCardinality(calls) - 1]_vars

====
